---- MODULE Spec2Model ----
(***************************************************************************)
(* Model of md-to-ipynb.js: splitIntoNotebookCells, the single-pass scan   *)
(* that cuts a Markdown text into notebook cells, and the command line     *)
(* script around it.  Strings are sequences of one-character strings so    *)
(* that split, trim, slice, startsWith and replace are computed character  *)
(* by character, as the JavaScript does.                                   *)
(***************************************************************************)
EXTENDS Integers, Sequences, FiniteSets, TLC

VARIABLES pc, markdown, lines, i, currentCell, inCodeBlock, codeBlockLang, cells

\* the process around the scan: its arguments, the files on disk, its exit
\* status and what it printed
VARIABLES argv, files, status, console

cli == <<argv, files, status, console>>

vars == <<pc, markdown, lines, i, currentCell, inCodeBlock, codeBlockLang, cells,
          argv, files, status, console>>

(* ------------------------------ strings -------------------------------- *)

NL == "\n"

\* the backtick character (a backtick cannot be written inside a string here)
BT == "BACKTICK"

WhiteSpace == {" ", NL, "\t", "\r"}

FENCE == <<BT, BT, BT>>

HASH == <<"#">>

PYTHON == <<"p", "y", "t", "h", "o", "n">>

\* the prefix looked for anywhere in the string, as includes does
StartsWith_Includes(s, p) ==
  \E k \in 1..(Len(s) - Len(p) + 1) : SubSeq(s, k, k + Len(p) - 1) = p

\* String.prototype.startsWith
StartsWith(s, p) == Len(s) >= Len(p) /\ SubSeq(s, 1, Len(p)) = p

\* String.prototype.slice(n): the string without its first n characters
Slice(s, n) == SubSeq(s, n + 1, Len(s))

RECURSIVE TrimStart(_)
TrimStart(s) ==
  IF s # <<>> /\ Head(s) \in WhiteSpace THEN TrimStart(Tail(s)) ELSE s

RECURSIVE TrimEnd(_)
TrimEnd(s) ==
  IF s # <<>> /\ s[Len(s)] \in WhiteSpace
  THEN TrimEnd(SubSeq(s, 1, Len(s) - 1)) ELSE s

\* String.prototype.trim
Trim(s) == TrimEnd(TrimStart(s))

\* truthiness of a string: the empty string is falsy
Truthy(s) == s # <<>>

RECURSIVE SplitFrom(_, _, _, _)
SplitFrom(s, k, piece, out) ==
  IF k > Len(s) THEN Append(out, piece)
  ELSE IF s[k] = NL THEN SplitFrom(s, k + 1, <<>>, Append(out, piece))
  ELSE SplitFrom(s, k + 1, Append(piece, s[k]), out)

\* String.prototype.split on the newline character: the pieces between
\* newlines, so the empty string gives one empty piece
Split(s) == SplitFrom(s, 1, <<>>, <<>>)

\* the pieces kept as they are, without the newline put back
MapNL_Plain(ls) == ls

\* .map(line => line + newline)
MapNL(ls) == [k \in 1..Len(ls) |-> ls[k] \o <<NL>>]

(* ------------------------------- cells --------------------------------- *)

\* the last two pieces of the split dropped to get rid of the empty one
SourceOf_DropLast(cell) ==
  MapNL(SubSeq(Split(cell), 1, Len(Split(cell)) - 2))

\* currentCell.split(newline).map(line => line + newline)
SourceOf(cell) == MapNL(Split(cell))

MarkdownCell(src) ==
  [cell_type |-> "markdown", metadata |-> <<>>, source |-> src]

\* a code cell that claims to have been run once
CodeCell_Run(src) ==
  [cell_type |-> "code", execution_count |-> "1",
   metadata |-> [tags |-> <<>>], outputs |-> <<>>, source |-> src]

CodeCell(src) ==
  [cell_type |-> "code", execution_count |-> "null",
   metadata |-> [tags |-> <<>>], outputs |-> <<>>, source |-> src]

\* the cell put at the front of the output
Push_Front(cs, c) == <<c>> \o cs

\* cells.push
Push(cs, c) == Append(cs, c)

\* the language recorded at an opening fence: line.slice(3).trim()
FenceLang(line) == Trim(Slice(line, 3))

\* the language compared without regard to the case of its first letter
CellType_AnyCase(lang) ==
  IF lang = PYTHON \/ lang = <<"P", "y", "t", "h", "o", "n">>
  THEN "code" ELSE "markdown"

\* the cell type chosen at a closing fence from the recorded language
CellType(lang) == IF lang = PYTHON THEN "code" ELSE "markdown"

\* source of the markdown cell that keeps a non-python block
FencedSource(lang, cell) ==
  <<FENCE \o lang \o <<NL>>>> \o SourceOf(cell) \o <<FENCE \o <<NL>>>>

\* the flush test looking at the first character only, without trimming
HasContent_FirstChar(cell) == Truthy(cell) /\ Head(cell) \notin WhiteSpace

\* the flush test without the trim
HasContent_NoTrim(cell) == Truthy(cell)

\* the test guarding the three flushes of currentCell
HasContent(cell) == Truthy(Trim(cell))

\* the loop stopping one line early
LoopCond_OffByOne(k, ls) == k < Len(ls) - 1

\* for (let i = 0; i < lines.length; i++)
LoopCond(k, ls) == k < Len(ls)

NextIndex(k) == k + 1

(* ------------------------------- inputs -------------------------------- *)

MaxLines == 4

LineSet ==
  { <<>>,
    <<" ">>,
    <<"a">>,
    <<"#", "h">>,
    FENCE,
    FENCE \o PYTHON,
    FENCE \o <<"P", "y", "t", "h", "o", "n">>,
    FENCE \o <<" ">> \o PYTHON \o <<" ">>,
    <<" ">> \o FENCE,
    <<" ", "#">> }

RECURSIVE Join(_)
Join(ls) ==
  IF Len(ls) = 1 THEN ls[1] ELSE ls[1] \o <<NL>> \o Join(Tail(ls))


(* --------------------------- the file system --------------------------- *)

MD == <<".", "m", "d">>

IPYNB == <<".", "i", "p", "y", "n", "b">>

EndsWith(s, p) == Len(s) >= Len(p) /\ SubSeq(s, Len(s) - Len(p) + 1, Len(s)) = p

\* inputFile.replace(/\.md$/, '.ipynb'): a final .md becomes .ipynb and a
\* name that does not end with .md is returned as it is
ReplaceMd(name) ==
  IF EndsWith(name, MD)
  THEN SubSeq(name, 1, Len(name) - Len(MD)) \o IPYNB
  ELSE name

FileNames ==
  { <<"a">> \o MD, <<"a">> \o IPYNB, <<"a", ".", "t", "x", "t">>,
    <<"a", "m", "d">> }

Absent == [kind |-> "absent", text |-> <<>>, cells |-> <<>>]

TextFile(t) == [kind |-> "text", text |-> t, cells |-> <<>>]

\* the file written at the end: the cells in the notebook envelope
NotebookFile(cs) == [kind |-> "notebook", text |-> <<>>, cells |-> cs]

CliTexts ==
  { <<"a">>,
    Join(<<HASH \o <<"h">>, FENCE \o PYTHON, <<"a">>, FENCE>>) }

NODE == <<"n", "o", "d", "e">>

SCRIPT == <<"m", "d", "-", "t", "o", "-", "i", "p", "y", "n", "b", ".", "j", "s">>

\* process.argv: node, the script, then zero, one or two file names
ArgLists ==
  {<<NODE, SCRIPT>>}
    \cup {<<NODE, SCRIPT, a>> : a \in FileNames}
    \cup {<<NODE, SCRIPT, a, b>> : a \in FileNames, b \in FileNames}

\* process.argv[2]
inputFile == argv[3]

\* process.argv.length > 3 ? process.argv[3] : inputFile.replace(...)
outputFile == IF Len(argv) > 3 THEN argv[4] ELSE ReplaceMd(inputFile)

\* the existence test answering yes for every name
ExistsSync_Always(fs, name) == TRUE

\* fs.existsSync
ExistsSync(fs, name) == fs[name].kind # "absent"

(* ------------------------------ the scan ------------------------------- *)

\* the argument is any text of one to MaxLines lines drawn from LineSet
Init ==
  /\ \E n \in 1..MaxLines : \E ls \in [1..n -> LineSet] : markdown = Join(ls)
  /\ pc = "split"
  /\ lines = <<>>
  /\ i = 0
  /\ currentCell = <<>>
  /\ inCodeBlock = FALSE
  /\ codeBlockLang = <<>>
  /\ cells = <<>>
  /\ argv = <<NODE, SCRIPT>>
  /\ files = [n \in FileNames |-> Absent]
  /\ status = "running"
  /\ console = <<>>

SplitLines ==
  /\ pc = "split"
  /\ lines' = Split(markdown)
  /\ pc' = "loop"
  /\ UNCHANGED <<markdown, i, currentCell, inCodeBlock, codeBlockLang, cells>>
  /\ UNCHANGED cli

line == lines[i + 1]

InLoop == pc = "loop" /\ LoopCond(i, lines)

\* an opening fence without a tag keeping the tag recorded before
FenceOpen_KeepsTag ==
  /\ InLoop
  /\ StartsWith(line, FENCE)
  /\ ~inCodeBlock
  /\ IF HasContent(currentCell)
     THEN /\ cells' = Push(cells, MarkdownCell(SourceOf(currentCell)))
          /\ currentCell' = <<>>
     ELSE UNCHANGED <<cells, currentCell>>
  /\ codeBlockLang' =
       IF FenceLang(line) = <<>> THEN codeBlockLang ELSE FenceLang(line)
  /\ inCodeBlock' = TRUE
  /\ i' = NextIndex(i)
  /\ UNCHANGED <<pc, markdown, lines>>
  /\ UNCHANGED cli

FenceOpen ==
  /\ InLoop
  /\ StartsWith(line, FENCE)
  /\ ~inCodeBlock
  /\ IF HasContent(currentCell)
     THEN /\ cells' = Push(cells, MarkdownCell(SourceOf(currentCell)))
          /\ currentCell' = <<>>
     ELSE UNCHANGED <<cells, currentCell>>
  /\ codeBlockLang' = FenceLang(line)
  /\ inCodeBlock' = TRUE
  /\ i' = NextIndex(i)
  /\ UNCHANGED <<pc, markdown, lines>>
  /\ UNCHANGED cli

\* a closing fence that forgets to leave the code block
FenceClose_StaysInside ==
  /\ InLoop
  /\ StartsWith(line, FENCE)
  /\ inCodeBlock
  /\ inCodeBlock' = TRUE
  /\ cells' = IF CellType(codeBlockLang) = "code"
              THEN Push(cells, CodeCell(SourceOf(currentCell)))
              ELSE Push(cells,
                     MarkdownCell(FencedSource(codeBlockLang, currentCell)))
  /\ currentCell' = <<>>
  /\ i' = NextIndex(i)
  /\ UNCHANGED <<pc, markdown, lines, codeBlockLang>>
  /\ UNCHANGED cli

\* a closing fence that emits nothing for a blank body
FenceClose_SkipsBlank ==
  /\ InLoop
  /\ StartsWith(line, FENCE)
  /\ inCodeBlock
  /\ inCodeBlock' = FALSE
  /\ cells' = IF ~HasContent(currentCell) THEN cells
              ELSE IF CellType(codeBlockLang) = "code"
              THEN Push(cells, CodeCell(SourceOf(currentCell)))
              ELSE Push(cells,
                     MarkdownCell(FencedSource(codeBlockLang, currentCell)))
  /\ currentCell' = <<>>
  /\ i' = NextIndex(i)
  /\ UNCHANGED <<pc, markdown, lines, codeBlockLang>>
  /\ UNCHANGED cli

FenceClose ==
  /\ InLoop
  /\ StartsWith(line, FENCE)
  /\ inCodeBlock
  /\ inCodeBlock' = FALSE
  /\ cells' = IF CellType(codeBlockLang) = "code"
              THEN Push(cells, CodeCell(SourceOf(currentCell)))
              ELSE Push(cells,
                     MarkdownCell(FencedSource(codeBlockLang, currentCell)))
  /\ currentCell' = <<>>
  /\ i' = NextIndex(i)
  /\ UNCHANGED <<pc, markdown, lines, codeBlockLang>>
  /\ UNCHANGED cli

\* the header appended to the accumulation instead of seeding a new one
HeaderSeed_Merge(cell, l) == cell \o l \o <<NL>>

\* currentCell = line + newline
HeaderSeed(cell, l) == l \o <<NL>>

\* the header test without the guard on the fence mode
IsHeaderLine_Anywhere(inBlock, l) == StartsWith(l, HASH)

\* the header test: not in a code block and the line starts with a hash
IsHeaderLine(inBlock, l) == ~inBlock /\ StartsWith(l, HASH)

Header ==
  /\ InLoop
  /\ ~StartsWith(line, FENCE)
  /\ IsHeaderLine(inCodeBlock, line)
  /\ cells' = IF HasContent(currentCell)
              THEN Push(cells, MarkdownCell(SourceOf(currentCell)))
              ELSE cells
  /\ currentCell' =
       HeaderSeed(IF HasContent(currentCell) THEN <<>> ELSE currentCell, line)
  /\ i' = NextIndex(i)
  /\ UNCHANGED <<pc, markdown, lines, inCodeBlock, codeBlockLang>>
  /\ UNCHANGED cli

AppendLine ==
  /\ InLoop
  /\ ~StartsWith(line, FENCE)
  /\ ~IsHeaderLine(inCodeBlock, line)
  /\ currentCell' = currentCell \o line \o <<NL>>
  /\ i' = NextIndex(i)
  /\ UNCHANGED <<pc, markdown, lines, inCodeBlock, codeBlockLang, cells>>
  /\ UNCHANGED cli

\* the end of input treated as the close of a fence still open
FinalFlush_ClosesFence ==
  /\ pc = "loop"
  /\ ~LoopCond(i, lines)
  /\ cells' = IF inCodeBlock
              THEN IF CellType(codeBlockLang) = "code"
                   THEN Push(cells, CodeCell(SourceOf(currentCell)))
                   ELSE Push(cells,
                          MarkdownCell(FencedSource(codeBlockLang, currentCell)))
              ELSE IF HasContent(currentCell)
                   THEN Push(cells, MarkdownCell(SourceOf(currentCell)))
                   ELSE cells
  /\ pc' = "done"
  /\ UNCHANGED <<markdown, lines, i, currentCell, inCodeBlock, codeBlockLang>>
  /\ UNCHANGED cli

FinalFlush ==
  /\ pc = "loop"
  /\ ~LoopCond(i, lines)
  /\ cells' = IF HasContent(currentCell)
              THEN Push(cells, MarkdownCell(SourceOf(currentCell)))
              ELSE cells
  /\ pc' = "done"
  /\ UNCHANGED <<markdown, lines, i, currentCell, inCodeBlock, codeBlockLang>>
  /\ UNCHANGED cli

Next ==
  \/ SplitLines
  \/ FenceOpen
  \/ FenceClose
  \/ Header
  \/ AppendLine
  \/ FinalFlush

Spec == Init /\ [][Next]_vars

FairSpec == Spec /\ WF_vars(Next)

(* --------------------------- the command line -------------------------- *)

InitCLI ==
  /\ argv \in ArgLists
  /\ files \in [FileNames -> {Absent} \cup {TextFile(t) : t \in CliTexts}]
  /\ status = "running"
  /\ console = <<>>
  /\ pc = "cli"
  /\ markdown = <<>>
  /\ lines = <<>>
  /\ i = 0
  /\ currentCell = <<>>
  /\ inCodeBlock = FALSE
  /\ codeBlockLang = <<>>
  /\ cells = <<>>

scan == <<markdown, lines, i, currentCell, inCodeBlock, codeBlockLang, cells>>

\* no file name on the command line: the usage message and exit status 1
UsageExit ==
  /\ pc = "cli"
  /\ Len(argv) < 3
  /\ console' = Append(console, [stream |-> "stderr", msg |-> "usage"])
  /\ status' = "exit1"
  /\ pc' = "exit"
  /\ UNCHANGED <<argv, files>>
  /\ UNCHANGED scan

\* the input file does not exist: the error message and exit status 1
MissingExit ==
  /\ pc = "cli"
  /\ ~(Len(argv) < 3)
  /\ ~ExistsSync(files, inputFile)
  /\ console' = Append(console, [stream |-> "stderr", msg |-> "does not exist"])
  /\ status' = "exit1"
  /\ pc' = "exit"
  /\ UNCHANGED <<argv, files>>
  /\ UNCHANGED scan

\* fs.readFileSync and the call of splitIntoNotebookCells
ReadInput ==
  /\ pc = "cli"
  /\ ~(Len(argv) < 3)
  /\ ExistsSync(files, inputFile)
  /\ markdown' = files[inputFile].text
  /\ pc' = "split"
  /\ UNCHANGED <<lines, i, currentCell, inCodeBlock, codeBlockLang, cells>>
  /\ UNCHANGED cli

\* fs.writeFileSync of the notebook and the success message
WriteOutput ==
  /\ pc = "done"
  /\ files' = [files EXCEPT ![outputFile] = NotebookFile(cells)]
  /\ console' = Append(console, [stream |-> "stdout", msg |-> "converted"])
  /\ status' = "exit0"
  /\ pc' = "end"
  /\ UNCHANGED <<argv>>
  /\ UNCHANGED scan

NextCLI ==
  \/ UsageExit
  \/ MissingExit
  \/ ReadInput
  \/ SplitLines
  \/ FenceOpen
  \/ FenceClose
  \/ Header
  \/ AppendLine
  \/ FinalFlush
  \/ WriteOutput

SpecCLI == InitCLI /\ [][NextCLI]_vars

FairSpecCLI == SpecCLI /\ WF_vars(NextCLI)

(* ------------------- vocabulary of the properties ---------------------- *)

IsDelimiter(l) == StartsWith(l, FENCE)

IsHeader(l) == StartsWith(l, HASH)

IsBlank(l) == \A k \in 1..Len(l) : l[k] \in WhiteSpace

\* the number of delimiter lines among the first k source lines
DelimsBefore(k) == Cardinality({j \in 1..k : IsDelimiter(lines[j])})

\* the scan is inside a fence after the first k source lines
InsideAfter(k) == DelimsBefore(k) % 2 = 1

\* the last delimiter line among the first k source lines
OpenerOf(k) ==
  CHOOSE j \in 1..k :
    IsDelimiter(lines[j]) /\ \A m \in (j + 1)..k : ~IsDelimiter(lines[m])

\* the step about to be taken reads source line i + 1
Reading == pc = "loop" /\ i < Len(lines)

ClosingStep == Reading /\ IsDelimiter(lines[i + 1]) /\ InsideAfter(i)

OpeningStep == Reading /\ IsDelimiter(lines[i + 1]) /\ ~InsideAfter(i)

HeaderStep == Reading /\ IsHeader(lines[i + 1]) /\ ~InsideAfter(i)

Emitted == Len(cells') = Len(cells) + 1 /\ SubSeq(cells', 1, Len(cells)) = cells

RECURSIVE Flatten(_)
Flatten(cs) == IF cs = <<>> THEN <<>> ELSE Head(cs).source \o Flatten(Tail(cs))

\* all content lines of the output, in output order
Content == Flatten(cells)

Count(seq, x) == Cardinality({k \in 1..Len(seq) : seq[k] = x})

NotDelimiter(l) == ~IsDelimiter(l)

Substantive(l) == ~IsDelimiter(l) /\ ~IsBlank(l)

IsMarkdown(c) == c.cell_type = "markdown"

IsCode(c) == c.cell_type = "code"

BlankCell(c) == \A k \in 1..Len(c.source) : IsBlank(c.source[k])

Done == pc = "done"

\* the lines of the text as a reader counts them: the empty piece that the
\* split leaves after a final newline is not a line
ProperLines ==
  IF lines # <<>> /\ lines[Len(lines)] = <<>>
  THEN SubSeq(lines, 1, Len(lines) - 1) ELSE lines

(* ------------------------------ C1 ------------------------------------- *)

\* C1: Language gating.  The cell emitted at a closing delimiter is a code
\* cell exactly when the text after the three backticks of the opening
\* line, trimmed, is python in lower case; for every other tag, the empty
\* one and Python included, it is a markdown cell.
C1_LanguageGating ==
  [][ClosingStep =>
       /\ Emitted
       /\ LET tag == Trim(Slice(lines[OpenerOf(i)], 3))
              c == cells'[Len(cells')]
          IN  /\ (tag = PYTHON) => IsCode(c)
              /\ (tag # PYTHON) => IsMarkdown(c)]_vars

C1_Witness ==
  /\ Done
  /\ \E k \in 1..Len(cells) : IsCode(cells[k])
  /\ \E k \in 1..Len(cells) :
       /\ IsMarkdown(cells[k])
       /\ cells[k].source[1] =
            FENCE \o <<"P", "y", "t", "h", "o", "n">> \o <<NL>>

(* ------------------------------ C2 ------------------------------------- *)

\* C2 as stated: every source line that is not a fence delimiter,
\* whitespace-only lines included, occurs in the output content as often
\* as in the source.
C2_Original ==
  Done => \A k \in 1..Len(ProperLines) :
            NotDelimiter(ProperLines[k]) =>
              Count(Content, ProperLines[k] \o <<NL>>)
                = Count(ProperLines, ProperLines[k])

\* C2: Exhaustive coverage of the lines that hold a non-whitespace
\* character: each such source line that is not a fence delimiter occurs in
\* the output content exactly as often as in the source, so none is dropped
\* and none is duplicated.
C2_Coverage ==
  Done => \A k \in 1..Len(lines) :
            Substantive(lines[k]) =>
              Count(Content, lines[k] \o <<NL>>) = Count(lines, lines[k])

\* a whitespace-only line was dropped while the text after it was kept
C2_Witness ==
  /\ Done
  /\ \E k \in 1..Len(lines) :
       /\ lines[k] = <<" ">>
       /\ Count(Content, lines[k] \o <<NL>>) = 0
  /\ \E k \in 1..Len(lines) :
       Substantive(lines[k]) /\ Count(Content, lines[k] \o <<NL>>) = 1

(* ------------------------------ C3 ------------------------------------- *)

KeptElement(e) == ~IsDelimiter(e)

SubstantiveElement(e) == ~IsDelimiter(e) /\ ~IsBlank(e)

\* C3 as stated: the output content without its fence lines is the
\* sequence of the non-delimiter source lines.
C3_Original ==
  Done => SelectSeq(Content, KeptElement)
            = MapNL(SelectSeq(ProperLines, NotDelimiter))

\* C3: Order preservation of the lines that hold a non-whitespace
\* character: the output content, without its fence lines and without its
\* whitespace-only elements, is the sequence of the non-delimiter,
\* non-blank source lines in source order.
C3_Order ==
  Done => SelectSeq(Content, SubstantiveElement)
            = MapNL(SelectSeq(lines, Substantive))

\* prose, a python fence with a body, in that order in the output
C3_Witness ==
  /\ Done
  /\ Len(cells) = 2
  /\ IsMarkdown(cells[1]) /\ ~BlankCell(cells[1])
  /\ IsCode(cells[2]) /\ ~BlankCell(cells[2])

(* ------------------------------ C4 ------------------------------------- *)

\* C4 as stated: no emitted cell, markdown or code, is made of whitespace
\* only.
C4_Original == \A k \in 1..Len(cells) : ~BlankCell(cells[k])

\* C4: No blank markdown cell: every emitted markdown cell holds a
\* non-whitespace character, and a cell made of whitespace only is a code
\* cell emitted at the close of a python fence.
C4_NoBlankMarkdown ==
  \A k \in 1..Len(cells) : BlankCell(cells[k]) => IsCode(cells[k])

\* a python fence with an empty body was closed next to a prose cell
C4_Witness ==
  /\ Done
  /\ \E k \in 1..Len(cells) : IsCode(cells[k]) /\ BlankCell(cells[k])
  /\ \E k \in 1..Len(cells) : IsMarkdown(cells[k])

(* ------------------------------ C5 ------------------------------------- *)

\* the accumulation was seeded by a header read outside a fence
Seeded == ~inCodeBlock /\ currentCell # <<>> /\ Head(currentCell) = "#"

FirstLine(cell) == Split(cell)[1] \o <<NL>>

\* C5: Header seeding.  A header read outside a fence becomes the whole new
\* accumulation, the cell emitted at that step (if any) is made of the
\* accumulation that preceded the header, and an accumulation seeded by a
\* header stays pending with the header first until it is emitted as a
\* markdown cell whose first content line is the header.
C5_HeaderSeeding ==
  [][/\ HeaderStep =>
          /\ currentCell' = lines[i + 1] \o <<NL>>
          /\ \/ cells' = cells
             \/ /\ Emitted
                /\ cells'[Len(cells')] = MarkdownCell(SourceOf(currentCell))
     /\ (Seeded /\ pc = "loop") =>
          \/ /\ cells' = cells
             /\ Seeded'
             /\ SubSeq(currentCell', 1, Len(currentCell)) = currentCell
          \/ /\ Emitted
             /\ IsMarkdown(cells'[Len(cells')])
             /\ cells'[Len(cells')].source[1] = FirstLine(currentCell)]_vars

\* two headers, each the first line of its own cell
C5_Witness ==
  /\ Done
  /\ Len(cells) >= 2
  /\ \E k \in 2..Len(cells) :
       /\ IsMarkdown(cells[k]) /\ cells[k].source[1] = <<"#", "h", NL>>
       /\ IsMarkdown(cells[k - 1]) /\ ~BlankCell(cells[k - 1])

(* ------------------------------ C6 ------------------------------------- *)

\* the source lines strictly between the opening delimiter and line i + 1
Body == SubSeq(lines, OpenerOf(i) + 1, i)

OpeningTag == Trim(Slice(lines[OpenerOf(i)], 3))

\* C6: Code cell content is exact.  At the close of a python fence the
\* emitted code cell holds the body lines, each with its newline, and
\* nothing else.
C6_CodeContentExact ==
  [][(ClosingStep /\ OpeningTag = PYTHON) =>
       /\ Emitted
       /\ IsCode(cells'[Len(cells')])
       /\ cells'[Len(cells')].source = MapNL(Body)]_vars

(* ------------------------------ C7 ------------------------------------- *)

\* C7: A demoted fence is re-wrapped exactly.  At the close of a fence whose
\* tag is not python the emitted markdown cell holds the opening fence line
\* with the tag, the body lines, and the closing fence line, with nothing
\* between the last body line and the closing fence line.
C7_RewrapExact ==
  [][(ClosingStep /\ OpeningTag # PYTHON) =>
       /\ Emitted
       /\ IsMarkdown(cells'[Len(cells')])
       /\ cells'[Len(cells')].source =
            <<FENCE \o OpeningTag \o <<NL>>>> \o MapNL(Body)
              \o <<FENCE \o <<NL>>>>]_vars

(* ------------------------------ C8 ------------------------------------- *)

\* the lines of a text that ends with a newline: the pieces but the last
TextLines == SubSeq(lines, 1, Len(lines) - 1)

HeaderIdx == {k \in 1..Len(TextLines) : IsHeader(TextLines[k])}

\* the last line of the section that the header at line k opens
SectionEnd(k) ==
  IF \E h \in HeaderIdx : h > k
  THEN (CHOOSE h \in HeaderIdx :
          h > k /\ \A g \in HeaderIdx : g > k => h <= g) - 1
  ELSE Len(TextLines)

HeaderRank(k) == Cardinality({h \in HeaderIdx : h <= k})

FenceFreeSections ==
  /\ Len(lines) >= 2
  /\ lines[Len(lines)] = <<>>
  /\ IsHeader(lines[1])
  /\ \A k \in 1..Len(lines) : ~IsDelimiter(lines[k])

\* C8: Prose section content is exact.  For a fence-free text that ends
\* with a newline and starts with a header, the output has one markdown
\* cell per header, and the k-th cell holds the k-th header and the lines up
\* to the next header, each with its newline, and no other line.
C8_SectionExact ==
  (Done /\ FenceFreeSections) =>
     /\ Len(cells) = Cardinality(HeaderIdx)
     /\ \A h \in HeaderIdx :
          /\ IsMarkdown(cells[HeaderRank(h)])
          /\ cells[HeaderRank(h)].source
               = MapNL(SubSeq(TextLines, h, SectionEnd(h)))

(* ------------------------------ C9 ------------------------------------- *)

\* the body of the fence left open at the end of the input
OpenBody == SubSeq(lines, OpenerOf(Len(lines)) + 1, Len(lines))

OpenTag == Trim(Slice(lines[OpenerOf(Len(lines))], 3))

\* the input ended inside a fence whose body holds a non-whitespace
\* character
Unterminated ==
  /\ Done
  /\ InsideAfter(Len(lines))
  /\ \E k \in 1..Len(OpenBody) : ~IsBlank(OpenBody[k])

\* C9 as stated: the cell of the final flush starts with the reconstructed
\* opening fence line, followed by the body lines.
C9_Original ==
  Unterminated =>
    /\ cells # <<>>
    /\ IsMarkdown(cells[Len(cells)])
    /\ cells[Len(cells)].source[1] = FENCE \o OpenTag \o <<NL>>

\* C9: Unterminated fence.  The final flush emits a markdown cell that holds
\* the body lines in order, with only whitespace-only lines before and
\* after them, and no fence line at all: neither the opening fence line
\* nor a closing one is synthesized.
C9_UnterminatedFence ==
  Unterminated =>
    /\ cells # <<>>
    /\ IsMarkdown(cells[Len(cells)])
    /\ LET src == cells[Len(cells)].source
           first == Len(src) - Len(OpenBody)
       IN  /\ first >= 1
           /\ SubSeq(src, first, Len(src) - 1) = MapNL(OpenBody)
           /\ \A k \in 1..Len(src) :
                /\ ~IsDelimiter(src[k])
                /\ (k < first \/ k = Len(src)) => IsBlank(src[k])

\* a fence tagged python was left open with a body
C9_Witness ==
  /\ Unterminated
  /\ OpenTag = PYTHON
  /\ Len(cells) >= 1
  /\ cells[Len(cells)].source[1] = <<"a", NL>>

(* ------------------------------ C10 ------------------------------------ *)

\* C10: Totality and termination.  Every loop step reads the line that
\* follows the one read before, the end-of-input flush is taken when every
\* line has been read and not sooner, and the scan reaches its return.
C10_Termination ==
  /\ [][(pc = "loop" /\ pc' = "loop") => (i < Len(lines) /\ i' = i + 1)]_vars
  /\ [][(pc = "loop" /\ pc' = "done") => i = Len(lines)]_vars
  /\ <>Done

\* the scan returned after an unterminated fence that holds a header line
C10_Witness ==
  /\ Done
  /\ i = Len(lines)
  /\ inCodeBlock
  /\ \E k \in 2..Len(lines) : IsHeader(lines[k]) /\ InsideAfter(k - 1)

(* ------------------------------ C11 ------------------------------------ *)

\* the text is made of whitespace-only lines and holds no delimiter
OnlyBlankLines == \A k \in 1..Len(lines) : IsBlank(lines[k])

\* C11: Empty input yields no cells.  For the empty text, and for any text
\* made of whitespace-only lines only, the scan returns the empty sequence
\* of cells.
C11_BlankInputNoCells == (Done /\ OnlyBlankLines) => cells = <<>>

\* several whitespace-only lines, one of them not empty, gave no cell
C11_Witness ==
  /\ Done
  /\ OnlyBlankLines
  /\ Len(lines) >= 3
  /\ \E k \in 1..Len(lines) : lines[k] = <<" ">>
  /\ cells = <<>>

(* ------------------------------ C12 ------------------------------------ *)

\* C12: Cell record shape.  Every emitted cell is a markdown cell or a code
\* cell, every code cell has a null execution count and no outputs, and a
\* cell emitted at any step other than the reading of a closing delimiter
\* (an opening fence, a header, the end of input) is a markdown cell.
C12_CellShape ==
  /\ [](\A k \in 1..Len(cells) :
          /\ cells[k].cell_type \in {"markdown", "code"}
          /\ IsCode(cells[k]) =>
               /\ cells[k].execution_count = "null"
               /\ cells[k].outputs = <<>>)
  /\ [][(Len(cells') > Len(cells) /\ ~ClosingStep) =>
          IsMarkdown(cells'[Len(cells')])]_vars

\* a code cell between a cell flushed at an opening fence and one flushed
\* at the end of input
C12_Witness ==
  /\ Done
  /\ Len(cells) = 3
  /\ IsMarkdown(cells[1]) /\ IsCode(cells[2]) /\ IsMarkdown(cells[3])

(* ------------------------------ C13 ------------------------------------ *)

\* the step that writes the output file
Writing == pc = "done" /\ pc' = "end"

\* C13: Default output name.  When only the input file is named, the file
\* written has a name that ends with .ipynb, for every input file name, so
\* that the output path differs from the input path and the input file is
\* left as it was.
C13_DefaultOutputName ==
  [][(Writing /\ Len(argv) = 3) =>
       /\ EndsWith(outputFile, IPYNB)
       /\ outputFile # inputFile
       /\ files'[inputFile] = files[inputFile]]_vars

(* ------------------------------ C14 ------------------------------------ *)

\* no input argument, or an input file that does not exist
NoInput ==
  IF Len(argv) < 3 THEN TRUE ELSE files[argv[3]].kind = "absent"

\* C14: Fatal failure handling.  Without an input argument, or with an
\* input file that does not exist, the only step of the program prints one
\* message on the error stream and exits with status 1; nothing is read or
\* segmented and no file is created or modified.
C14_FatalExit ==
  /\ [](NoInput =>
          /\ pc \in {"cli", "exit"}
          /\ markdown = <<>> /\ lines = <<>> /\ cells = <<>>
          /\ \A n \in FileNames : files[n].kind # "notebook"
          /\ pc = "exit" =>
               /\ status = "exit1"
               /\ Len(console) = 1
               /\ console[1].stream = "stderr")
  /\ [][(pc = "cli" /\ NoInput) => (pc' = "exit" /\ files' = files)]_vars

\* the input file named first does not exist and the output file named
\* second is still the text it was
C14_Witness ==
  /\ pc = "exit"
  /\ Len(argv) = 4
  /\ files[argv[3]].kind = "absent"
  /\ files[argv[4]].kind = "text"
  /\ status = "exit1"

(* ------------------------------ C15 ------------------------------------ *)

RECURSIVE Cat(_)
\* the lines, each followed by a newline, as one string
Cat(ls) == IF ls = <<>> THEN <<>> ELSE Head(ls) \o <<NL>> \o Cat(Tail(ls))

\* C15: Opening a fence clears pending.  After an opening delimiter is read
\* the accumulation is empty, whether or not a cell was flushed, so that at
\* the closing delimiter it holds the body lines of the fence and no line
\* that preceded the opening delimiter.
C15_OpenClearsPending ==
  /\ [][OpeningStep => currentCell' = <<>>]_vars
  /\ [](ClosingStep => currentCell = Cat(Body))

(* ------------------------------ C16 ------------------------------------ *)

\* the step about to be taken reads a line starting with a hash inside a
\* fence
HashInFence == Reading /\ IsHeader(lines[i + 1]) /\ InsideAfter(i)

\* C16: Headers inside fences are ignored.  Inside a fence a line starting
\* with a hash is appended to the accumulation like any body line: no cell
\* is emitted, the accumulation is not reset, and the mode and the recorded
\* tag stay as they are.
C16_HeaderInFenceIgnored ==
  [][HashInFence =>
       /\ currentCell' = currentCell \o lines[i + 1] \o <<NL>>
       /\ cells' = cells
       /\ inCodeBlock' = inCodeBlock /\ inCodeBlock
       /\ codeBlockLang' = codeBlockLang]_vars

\* a python fence whose body is a line and then a hash line was closed
C16_Witness ==
  /\ Done
  /\ Len(lines) = 4
  /\ lines[1] = FENCE \o PYTHON
  /\ IsHeader(lines[3])
  /\ Len(cells) = 1
  /\ IsCode(cells[1])
  /\ cells[1].source[2] = lines[3] \o <<NL>>

(* ------------------------------ C17 ------------------------------------ *)

\* C17: The output is append-only.  Every step leaves the output as it was
\* or adds one cell at its end; no step changes, removes or reorders a cell
\* emitted before.
C17_AppendOnly == [][cells' = cells \/ Emitted]_vars

\* four cells were emitted one after the other
C17_Witness == Done /\ Len(cells) = 4

(* ------------------------------ C18 ------------------------------------ *)

TagOf(l) == Trim(Slice(l, 3))

\* C18: Tag binding across fences.  Every opening delimiter overwrites the
\* recorded tag with its own, the empty one included; inside a fence the
\* recorded tag is the tag of the most recent opening delimiter; a closing
\* delimiter leaves it alone and the kind of the cell it emits follows the
\* recorded tag, whatever text the closing line carries.
C18_TagBinding ==
  /\ [][OpeningStep => codeBlockLang' = TagOf(lines[i + 1])]_vars
  /\ []((pc = "loop" /\ i >= 1 /\ InsideAfter(i)) =>
          codeBlockLang = TagOf(lines[OpenerOf(i)]))
  /\ [][ClosingStep =>
          /\ codeBlockLang' = codeBlockLang
          /\ Emitted
          /\ IsCode(cells'[Len(cells')]) <=> (codeBlockLang = PYTHON)]_vars

\* a python fence closed by a line that carries a tag, then a fence without
\* a tag closed by a line tagged python
C18_Witness ==
  /\ Done
  /\ Len(lines) = 4
  /\ lines[1] = FENCE \o PYTHON
  /\ lines[2] # FENCE
  /\ lines[3] = FENCE
  /\ lines[4] = FENCE \o PYTHON
  /\ Len(cells) = 2
  /\ IsCode(cells[1])
  /\ IsMarkdown(cells[2])

(* ------------------------------ C19 ------------------------------------ *)

\* C19: Closing a fence.  Every delimiter read inside a fence emits exactly
\* one cell, whatever the body, leaves the accumulation empty and the mode
\* outside; the delimiter line is not added to the accumulation.
C19_FenceClose ==
  [][ClosingStep =>
       /\ Emitted
       /\ currentCell' = <<>>
       /\ ~inCodeBlock']_vars

\* a fence without a tag and without a body was closed and gave a cell
C19_Witness ==
  /\ Done
  /\ ~inCodeBlock
  /\ cells # <<>>
  /\ IsMarkdown(cells[Len(cells)])
  /\ cells[Len(cells)].source[1] = FENCE \o <<NL>>
  /\ Len(cells[Len(cells)].source) = 3

(* ------------------------------ C20 ------------------------------------ *)

HasNonWhiteSpace(t) == \E k \in 1..Len(t) : t[k] \notin WhiteSpace

EndOfInput == pc = "loop" /\ i >= Len(lines)

FlushPoint == OpeningStep \/ HeaderStep \/ EndOfInput

\* C20: Blank-check rule.  At an opening fence, at a header outside a fence
\* and at the end of input the accumulation is emitted as a markdown cell
\* exactly when it holds a non-whitespace character; an accumulation seeded
\* by a header is therefore always emitted there.
C20_BlankCheck ==
  [][FlushPoint =>
       /\ HasNonWhiteSpace(currentCell) =>
            (Emitted /\ IsMarkdown(cells'[Len(cells')]))
       /\ ~HasNonWhiteSpace(currentCell) => cells' = cells
       /\ Seeded => Emitted]_vars

\* a header followed by blank lines only was emitted, and whitespace-only
\* lines before it were not
C20_Witness ==
  /\ Done
  /\ Len(lines) = 4
  /\ lines[1] = <<" ">>
  /\ IsHeader(lines[2])
  /\ IsBlank(lines[3]) /\ IsBlank(lines[4])
  /\ Len(cells) = 1
  /\ cells[1].source[1] = lines[2] \o <<NL>>

(* ------------------------------ C21 ------------------------------------ *)

\* the source lines read so far
ReadSoFar == SubSeq(lines, 1, i)

\* C21: Non-blank content is never lost or repeated.  While the scan runs,
\* every line read so far that holds a non-whitespace character and is not
\* a delimiter is, as often as it was read, either in the output (with its
\* newline) or in the accumulation; when the scan has returned it is in
\* the output as often as it occurs in the source.
C21_NonBlankConserved ==
  /\ pc = "loop" =>
       \A k \in 1..i :
         Substantive(lines[k]) =>
           Count(Content, lines[k] \o <<NL>>)
               + Count(Split(currentCell), lines[k])
             = Count(ReadSoFar, lines[k])
  /\ Done =>
       \A k \in 1..Len(lines) :
         Substantive(lines[k]) =>
           Count(Content, lines[k] \o <<NL>>) = Count(lines, lines[k])

\* a whitespace-only line was moved into the code cell of the fence that
\* follows it, and the body line of the fence is in the output once
C21_Witness ==
  /\ Done
  /\ Len(lines) = 4
  /\ lines[1] = <<" ">>
  /\ lines[3] = <<"a">>
  /\ Len(cells) = 1
  /\ IsCode(cells[1])
  /\ cells[1].source[1] = <<" ", NL>>
  /\ Count(Content, <<"a", NL>>) = 1

(* ------------------------------ C22 ------------------------------------ *)

\* C22: Mode parity.  After any number of lines read the scan is inside a
\* code block exactly when the number of lines read that begin with three
\* backticks is odd; such a line flips the mode and every other line
\* leaves it as it is.
C22_ModeParity ==
  /\ [](pc \in {"loop", "done"} => (inCodeBlock <=> InsideAfter(i)))
  /\ [][Reading =>
          IF IsDelimiter(lines[i + 1])
          THEN inCodeBlock' = ~inCodeBlock
          ELSE inCodeBlock' = inCodeBlock]_vars

\* three delimiter lines and a header line were read: the scan ends inside
C22_Witness ==
  /\ Done
  /\ Len(lines) = 4
  /\ DelimsBefore(4) = 3
  /\ IsHeader(lines[2])
  /\ inCodeBlock

(* ------------------------------ C23 ------------------------------------ *)

\* the string ends with a newline and holds no other one
OneFinalNewline(e) ==
  /\ e # <<>>
  /\ e[Len(e)] = NL
  /\ \A k \in 1..(Len(e) - 1) : e[k] # NL

\* C23: Line-terminator well-formedness.  Every content element of every
\* emitted cell ends with one newline and holds no other newline, and the
\* accumulation is empty or ends with a newline.
C23_LineTerminators ==
  /\ \A k \in 1..Len(cells) :
       \A j \in 1..Len(cells[k].source) : OneFinalNewline(cells[k].source[j])
  /\ currentCell = <<>> \/ currentCell[Len(currentCell)] = NL

\* a kept fence with a body was emitted and a later line is accumulated
C23_Witness ==
  /\ pc = "loop"
  /\ Len(cells) = 1
  /\ IsMarkdown(cells[1])
  /\ Len(cells[1].source) = 4
  /\ cells[1].source[2] = <<"a", NL>>
  /\ currentCell = <<"a", NL>>

(* ------------------------------ C24 ------------------------------------ *)

\* the first three characters of the line are backticks
BeginsWithFence(l) == Len(l) >= 3 /\ l[1] = BT /\ l[2] = BT /\ l[3] = BT

\* the first character of the line is a hash
BeginsWithHash(l) == Len(l) >= 1 /\ l[1] = "#"

\* C24: Line classification is by the first characters of the raw line.  A
\* line flips the mode exactly when its first three characters are
\* backticks; outside a fence a line whose first character is a hash
\* becomes the new accumulation; every other line, a line with white space
\* before the backticks or the hash included, is appended to the
\* accumulation and neither changes the mode nor emits a cell.
C24_Classification ==
  [][Reading =>
       LET l == lines[i + 1]
       IN  /\ BeginsWithFence(l) <=> (inCodeBlock' # inCodeBlock)
           /\ (~inCodeBlock /\ BeginsWithHash(l)) =>
                currentCell' = l \o <<NL>>
           /\ (~BeginsWithFence(l) /\ ~(~inCodeBlock /\ BeginsWithHash(l))) =>
                /\ currentCell' = currentCell \o l \o <<NL>>
                /\ cells' = cells
                /\ codeBlockLang' = codeBlockLang]_vars

\* an indented fence line and an indented hash line stayed in the cell of
\* the text before them
C24_Witness ==
  /\ Done
  /\ ~inCodeBlock
  /\ Len(lines) = 3
  /\ lines[1] = <<"a">>
  /\ lines[2] = <<" ">> \o FENCE
  /\ lines[3] = <<" ", "#">>
  /\ Len(cells) = 1
  /\ cells[1].source[2] = <<" ">> \o FENCE \o <<NL>>
  /\ cells[1].source[3] = <<" ", "#", NL>>

====
